---- MODULE Spec2Model ----
(***************************************************************************)
(* FactorioBoard-Server: game-save storage (GameSaveRepository), the       *)
(* upload / analyze services (GameSaveService) and the save parser and     *)
(* analysis engine (gameParser/save.service.ts).                           *)
(*                                                                         *)
(* Five specifications share the module:                                   *)
(*   ParseSpec    - parseFactorioSave applied to bounded archives          *)
(*   AnalysisSpec - analyzeFactorioSave applied to bounded save data       *)
(*   NameSpec     - decodeFileName applied to bounded raw names            *)
(*   Spec         - the storage root under concurrent uploads, retention   *)
(*                  runs and analyze requests                              *)
(*   RaceSpec     - two retention runs racing over one storage root        *)
(* Strings the code inspects character by character are sequences of       *)
(* one-character strings.                                                  *)
(***************************************************************************)
EXTENDS Integers, Sequences, FiniteSets, TLC

VARIABLES
    archive,        \* ParseSpec: the opened zip handed to parseFactorioSave
    parseResult,    \* ParseSpec: what parseFactorioSave returned / threw
    saveData,       \* AnalysisSpec: the argument of analyzeFactorioSave
    fpTieUp,        \* AnalysisSpec: direction a non-representable decimal tie rounds
    analysis,       \* AnalysisSpec: what analyzeFactorioSave returned / threw
    rawName,        \* NameSpec: the raw file.originalname
    decoded,        \* NameSpec: decodeFileName applied once and twice
    dirExists,      \* Spec: the upload directory exists
    files,          \* Spec: directory entries of the upload directory
    clock,          \* Spec: next modification time
    nextUuid,       \* Spec: index of the next value randomUUID() returns
    generated,      \* Spec: names returned by saveFileAsync so far, in order
    evicted,        \* Spec: names unlinked by pruneOldFilesIfExceed so far
    uploads,        \* Spec: in-flight uploadFile calls
    prunes,         \* Spec: in-flight pruneOldFilesIfExceed calls
    analyzers,      \* Spec: in-flight analyzeGameSave calls
    response,       \* Spec: what the last step sent back: a response, a completed
                    \*       retention run, or nothing
    cap             \* CapSpec: the maxCount every retention call is given

parseVars == <<archive, parseResult>>
analysisVars == <<saveData, fpTieUp, analysis>>
nameVars == <<rawName, decoded>>
storeVars == <<dirExists, files, clock, nextUuid, generated, evicted, uploads,
               prunes, analyzers, response, cap>>
vars == <<archive, parseResult, saveData, fpTieUp, analysis, rawName, decoded, dirExists, files,
          clock, nextUuid, generated, evicted, uploads, prunes, analyzers, response, cap>>

(***************************************************************************)
(* Bounds                                                                  *)
(***************************************************************************)
MaxEntries == 11    \* longest zip listing
MaxUploads == 2     \* saveFileAsync calls per behaviour
MaxCap == 2         \* largest maxCount handed to pruneOldFilesIfExceed
MaxPower == 1200    \* largest production.total
MaxNests == 31      \* most biter nests on the map
MaxStored == 3      \* most archives in the upload directory when two retention runs race
MaxPieces == 3      \* most fragments a raw file name is made of
MaxMachines == 2    \* most furnaces or mining drills of one kind on the map

(***************************************************************************)
(* String helpers                                                          *)
(***************************************************************************)
Min(a, b) == IF a <= b THEN a ELSE b

EndsWith(p, s) ==
    /\ Len(p) >= Len(s)
    /\ SubSeq(p, Len(p) - Len(s) + 1, Len(p)) = s

\* String.prototype.replace(/\\/g, "/")
ReplaceBackslashes(p) == [i \in 1..Len(p) |-> IF p[i] = "\\" THEN "/" ELSE p[i]]

\* Array.prototype.join(", ")
RECURSIVE Join(_)
Join(names) ==
    IF Len(names) = 0 THEN <<>>
    ELSE IF Len(names) = 1 THEN names[1]
    ELSE names[1] \o <<",", " ">> \o Join(Tail(names))

(***************************************************************************)
(* Save data: the value parseLevelInitData returns.  Optional members are  *)
(* presence flags; "full" holds what full-mode analysis reads.             *)
(***************************************************************************)
CoreResources == <<"iron-ore", "copper-ore", "coal", "crude-oil">>

EnemyTypes == {"small-biter", "medium-biter", "big-biter", "behemoth-biter",
               "small-spitter", "medium-spitter", "big-spitter", "behemoth-spitter"}

NestTypes == {"biter-nest", "spitter-nest"}

MachineNames == {"stone-furnace", "steel-furnace", "assembling-machine-1",
                 "assembling-machine-2", "assembling-machine-3", "lab",
                 "electric-mining-drill", "burner-mining-drill"}

\* names of map entities the model counts; "tree" stands for every other name
EntityNames == MachineNames \cup NestTypes \cup {"small-biter", "big-spitter", "tree"}

\* substructures full mode dereferences after the mode decision
NestedStructs == {"forces", "player", "technologies", "electric_network_statistics",
                  "production", "consumption", "item_production_statistics",
                  "output_counts", "items", "entities"}

DefaultFull ==
    [missing |-> {}, tick |-> 36000, techTotal |-> 10, techResearched |-> 5,
     nuclear |-> FALSE, solar |-> FALSE, steam |-> TRUE,
     prodTotal |-> 1000, consTotal |-> 1000,
     mined |-> [r \in {"iron-ore", "copper-ore", "coal", "crude-oil"} |-> 0],
     deposits |-> [r \in {"iron-ore", "copper-ore", "coal", "crude-oil"} |-> <<>>],
     ironPlate |-> 600, copperPlate |-> 600, ironGear |-> 0, copperCable |-> 0,
     ent |-> [e \in EntityNames |-> 0]]

\* a header record as factorio-save-parser produces it, or a richer snapshot
MkSaveData(kind, hasName, hasVersion, game, map, surfaces0, full) ==
    [kind |-> kind, hasName |-> hasName, hasVersion |-> hasVersion,
     game |-> game, map |-> map, surfaces0 |-> surfaces0,
     mapName |-> "base", gameVersion |-> "1.1", full |-> full]

NoData == MkSaveData("undefined", FALSE, FALSE, FALSE, FALSE, FALSE, DefaultFull)
HeaderOnlyData == MkSaveData("object", TRUE, TRUE, FALSE, FALSE, FALSE, DefaultFull)
FullSnapshot(full) == MkSaveData("object", TRUE, TRUE, TRUE, TRUE, TRUE, full)

(***************************************************************************)
(* Number formatting                                                       *)
(***************************************************************************)
\* toFixed(2) of an expression whose real value is num/den (integers, num >= 0,
\* den > 0) but which the code computes in two floating-point operations, as
\* a count of hundredths.  toFixed rounds the double, and at an exact decimal
\* tie k/200 that is no multiple of 1/8 the double lies on one side of the
\* tie; tieUp says which.
ToFixed2(num, den, tieUp) ==
    LET n == (100 * num) \div den
        r == (100 * num) % den
    IN  IF 2 * r < den THEN n
        ELSE IF 2 * r > den THEN n + 1
        ELSE IF (2 * n + 1) % 25 = 0 THEN n + 1
        ELSE IF tieUp THEN n + 1 ELSE n

RECURSIVE Pow2Mod(_, _)
Pow2Mod(k, m) == IF k = 0 THEN 1 % m ELSE (2 * Pow2Mod(k - 1, m)) % m

\* floor(log2(num/den)) for num > 0
RECURSIVE Log2Up(_, _, _)
Log2Up(num, den, e) == IF 2 * den <= num THEN Log2Up(num, 2 * den, e + 1) ELSE e
RECURSIVE Log2Down(_, _, _)
Log2Down(num, den, j) == IF 2 * num < den THEN Log2Down(2 * num, den, j + 1) ELSE 0 - j
Log2Floor(num, den) == IF num >= den THEN Log2Up(num, den, 0) ELSE Log2Down(num, den, 1)

\* (num / den).toFixed(2) for one IEEE-754 division, as a count of hundredths:
\* the quotient is the double nearest to num/den, with a 53-bit significand,
\* and toFixed rounds that double to the nearest hundredth, a tie to the larger
ToFixed2Quotient(num, den) ==
    LET n == (100 * num) \div den
        r == (100 * num) % den
        \* the sign of double(num/den) - num/den, from the bits the division drops
        rem == ((num % den) * Pow2Mod(52 - Log2Floor(num, den), den)) % den
    IN  IF 2 * r < den THEN n
        ELSE IF 2 * r > den THEN n + 1
        ELSE IF rem = 0 \/ 2 * rem > den THEN n + 1 ELSE n

Num(h) == [kind |-> "num", h |-> h]
NaN == [kind |-> "NaN", h |-> 0]
Dash == [kind |-> "dash", h |-> 0]

RECURSIVE SumAmounts(_)
SumAmounts(seq) ==
    IF seq = <<>> THEN 0
    ELSE (IF Head(seq).hasAmount THEN Head(seq).amount ELSE 0) + SumAmounts(Tail(seq))

Msg(rule, n, m, s) == [rule |-> rule, n |-> n, m |-> m, s |-> s]

(***************************************************************************)
(* Analysis engine                                                         *)
(***************************************************************************)
\* result.optimizeSuggestions.suggest of buildHeaderOnlyAnalysis
HeaderOnlySuggest == <<Msg("header-only", 0, 0, "")>>

\* buildHeaderOnlyAnalysis without the push onto optimizeSuggestions.suggest
BuildHeaderOnlyAnalysisNoPush(header) ==
    [fullAnalysisAvailable |-> FALSE,
     basic |-> [saveName |-> IF header.kind = "object" /\ header.hasName
                             THEN "header.name" ELSE "unnamed-base",
                gameTimeHour |-> Dash,
                gameVersion |-> IF header.kind = "object" /\ header.hasVersion
                                THEN "header.factorioVersion.asString"
                                ELSE "unknown-version"],
     develop |-> [stage |-> "early", score |-> Num(0), researchedCount |-> 0,
                  totalTechCount |-> 0, techRate |-> Num(0),
                  mainPowerType |-> "thermal"],
     resource |-> [mined |-> <<>>, remaining |-> <<>>, storage |-> <<>>,
                   coreResAlert |-> <<>>],
     production |-> [machines |-> <<>>, efficiencyRate |-> Dash,
                     efficiencyAlert |-> <<>>],
     power |-> [totalProduction |-> 0, totalConsumption |-> 0,
                powerRatio |-> Dash, powerStatus |-> "sufficient"],
     enemy |-> [totalCount |-> 0, nestCount |-> 0, threatLevel |-> "low",
                threatAlert |-> <<>>],
     optimizeSuggestions |-> [urgent |-> <<>>, important |-> <<>>,
                              suggest |-> <<>>]]

\* buildHeaderOnlyAnalysis(header); header = saveData ?? {}
BuildHeaderOnlyAnalysis(header) ==
    [fullAnalysisAvailable |-> FALSE,
     basic |-> [saveName |-> IF header.kind = "object" /\ header.hasName
                             THEN "header.name" ELSE "unnamed-base",
                gameTimeHour |-> Dash,
                gameVersion |-> IF header.kind = "object" /\ header.hasVersion
                                THEN "header.factorioVersion.asString"
                                ELSE "unknown-version"],
     develop |-> [stage |-> "early", score |-> Num(0), researchedCount |-> 0,
                  totalTechCount |-> 0, techRate |-> Num(0),
                  mainPowerType |-> "thermal"],
     resource |-> [mined |-> <<>>, remaining |-> <<>>, storage |-> <<>>,
                   coreResAlert |-> <<>>],
     production |-> [machines |-> <<>>, efficiencyRate |-> Dash,
                     efficiencyAlert |-> <<>>],
     power |-> [totalProduction |-> 0, totalConsumption |-> 0,
                powerRatio |-> Dash, powerStatus |-> "sufficient"],
     enemy |-> [totalCount |-> 0, nestCount |-> 0, threatLevel |-> "low",
                threatAlert |-> <<>>],
     optimizeSuggestions |-> [urgent |-> <<>>, important |-> <<>>,
                              suggest |-> HeaderOnlySuggest]]

\* the mode decision without the test of map.surfaces[0]
IsHeaderOnlyGameOnly(d) == ~(d.kind = "object" /\ d.game)

\* !saveData?.game || !saveData?.map?.surfaces?.[0]
IsHeaderOnly(d) ==
    \/ ~(d.kind = "object" /\ d.game)
    \/ ~(d.kind = "object" /\ d.map /\ d.surfaces0)

\* a property read on a missing substructure throws a TypeError
FullModeThrows(d) ==
    \/ d.kind # "object" \/ ~d.game \/ ~d.map \/ ~d.surfaces0
    \/ d.full.missing # {}

\* the stage rules with || in place of &&
StageEitherAxis(gameTimeH, techCount) ==
    IF gameTimeH < 1000 \/ techCount < 30 THEN "early"
    ELSE IF gameTimeH < 5000 \/ techCount < 80 THEN "mid"
    ELSE IF gameTimeH < 20000 \/ techCount < 150 THEN "late"
    ELSE "end"

\* develop.stage
Stage(gameTimeH, techCount) ==
    IF gameTimeH < 1000 /\ techCount < 30 THEN "early"
    ELSE IF gameTimeH < 5000 /\ techCount < 80 THEN "mid"
    ELSE IF gameTimeH < 20000 /\ techCount < 150 THEN "late"
    ELSE "end"

\* develop.score: Math.min(100, Math.round(techScore + stageScore))
Score(gameTimeH, researched, total) ==
    IF total = 0 THEN NaN
    ELSE LET stage20 == IF gameTimeH < 1000 THEN gameTimeH ELSE 1000
             \* techScore + stageScore = (1000*researched + stage20*total) / (20*total)
             num == 1000 * researched + stage20 * total
             den == 20 * total
         IN  Num(Min(100, (2 * num + den) \div (2 * den)))

\* develop.mainPowerType
MainPowerType(f) ==
    IF f.nuclear THEN "nuclear"
    ELSE IF f.solar THEN "solar"
    ELSE IF f.steam THEN "steam"
    ELSE "thermal"

\* power.powerStatus, decided on Number(power.powerRatio)
PowerStatus(ratioH) ==
    IF ratioH >= 110 THEN "sufficient"
    ELSE IF ratioH >= 90 THEN "tight"
    ELSE "insufficient"

\* power.powerRatio: (totalProduction / totalConsumption).toFixed(2),
\* consumption.total || 1
PowerRatio(prodTotal, consTotal) ==
    ToFixed2Quotient(prodTotal, IF consTotal = 0 THEN 1 ELSE consTotal)

\* the thresholds with <= in place of <
ThreatLevelInclusive(nestCount) ==
    IF nestCount = 0 THEN "low"
    ELSE IF nestCount <= 10 THEN "medium"
    ELSE IF nestCount <= 30 THEN "high"
    ELSE "critical"

\* enemy.threatLevel
ThreatLevel(nestCount) ==
    IF nestCount = 0 THEN "low"
    ELSE IF nestCount < 10 THEN "medium"
    ELSE IF nestCount < 30 THEN "high"
    ELSE "critical"

\* the alert pushed at the critical level only
ThreatAlertCriticalOnly(level, nestCount, totalCount) ==
    IF level = "critical"
    THEN <<Msg("threat", nestCount, totalCount, level)>>
    ELSE <<>>

\* enemy.threatAlert
ThreatAlert(level, nestCount, totalCount) ==
    IF level = "high" \/ level = "critical"
    THEN <<Msg("threat", nestCount, totalCount, level)>>
    ELSE <<>>

RECURSIVE CountOf(_, _)
CountOf(ent, names) ==
    IF names = {} THEN 0
    ELSE LET e == CHOOSE x \in names : TRUE
         IN  (IF e \in DOMAIN ent THEN ent[e] ELSE 0) + CountOf(ent, names \ {e})

\* the alerts with remaining/mined <= 0.1 as the test
RECURSIVE CoreResAlertInclusive(_, _, _)
CoreResAlertInclusive(mined, remaining, i) ==
    IF i > Len(CoreResources) THEN <<>>
    ELSE LET res == CoreResources[i]
         IN  (IF mined[res] > 0 /\ 10 * remaining[res] <= mined[res]
              THEN <<Msg("resource", remaining[res], mined[res], res)>>
              ELSE <<>>) \o CoreResAlertInclusive(mined, remaining, i + 1)

\* resource.coreResAlert: one alert per core resource with remaining/mined < 0.1
RECURSIVE CoreResAlert(_, _, _)
CoreResAlert(mined, remaining, i) ==
    IF i > Len(CoreResources) THEN <<>>
    ELSE LET res == CoreResources[i]
         IN  (IF mined[res] > 0 /\ 10 * remaining[res] < mined[res]
              THEN <<Msg("resource", remaining[res], mined[res], res)>>
              ELSE <<>>) \o CoreResAlert(mined, remaining, i + 1)

\* the alerts with the lab alert raised in every stage
EfficiencyAlertAnyStage(ent, stage) ==
    (IF ent["stone-furnace"] > 0
     THEN <<Msg("stone-furnace", ent["stone-furnace"], 0, "")>> ELSE <<>>)
    \o (IF ent["burner-mining-drill"] > 0
        THEN <<Msg("burner-mining-drill", ent["burner-mining-drill"], 0, "")>> ELSE <<>>)
    \o (IF ent["lab"] < 5
        THEN <<Msg("lab", ent["lab"], 0, "")>> ELSE <<>>)

\* production.efficiencyAlert
EfficiencyAlert(ent, stage) ==
    (IF ent["stone-furnace"] > 0
     THEN <<Msg("stone-furnace", ent["stone-furnace"], 0, "")>> ELSE <<>>)
    \o (IF ent["burner-mining-drill"] > 0
        THEN <<Msg("burner-mining-drill", ent["burner-mining-drill"], 0, "")>> ELSE <<>>)
    \o (IF ent["lab"] < 5 /\ stage = "early"
        THEN <<Msg("lab", ent["lab"], 0, "")>> ELSE <<>>)

\* production.efficiencyRate
EfficiencyRate(ent, tieUp) ==
    LET totalEffective == ent["steel-furnace"] + ent["electric-mining-drill"]
        totalMachine == ent["stone-furnace"] + ent["steel-furnace"]
                        + ent["electric-mining-drill"] + ent["burner-mining-drill"]
    IN  IF totalMachine > 0 THEN Num(ToFixed2(100 * totalEffective, totalMachine, tieUp))
        ELSE [kind |-> "100%", h |-> 10000]

\* the full-mode body of analyzeFactorioSave
FullAnalysis(d, tieUp) ==
    LET f == d.full
        gameTimeH == ToFixed2(f.tick, 3600, tieUp)
        techRate == IF f.techTotal = 0 THEN NaN
                    ELSE Num(ToFixed2(100 * f.techResearched, f.techTotal, tieUp))
        stage == Stage(gameTimeH, f.techResearched)
        mainPower == MainPowerType(f)
        remaining == [r \in DOMAIN f.deposits |-> SumAmounts(f.deposits[r])]
        coreResAlert == CoreResAlert(f.mined, remaining, 1)
        efficiencyAlert == EfficiencyAlert(f.ent, stage)
        ratioH == PowerRatio(f.prodTotal, f.consTotal)
        powerStatus == PowerStatus(ratioH)
        totalCount == CountOf(f.ent, EnemyTypes)
        nestCount == CountOf(f.ent, NestTypes)
        threatLevel == ThreatLevel(nestCount)
        threatAlert == ThreatAlert(threatLevel, nestCount, totalCount)
        \* analysis.enemy.threatAlert[0]
        threatAlert0 == IF Len(threatAlert) > 0 THEN threatAlert[1]
                        ELSE Msg("undefined", 0, 0, "")
    IN  [fullAnalysisAvailable |-> TRUE,
         basic |-> [saveName |-> IF d.mapName # "" THEN d.mapName ELSE "unnamed-base",
                    gameTimeHour |-> Num(gameTimeH),
                    gameVersion |-> IF d.gameVersion # "" THEN d.gameVersion
                                    ELSE "unknown-version"],
         develop |-> [stage |-> stage,
                      score |-> Score(gameTimeH, f.techResearched, f.techTotal),
                      researchedCount |-> f.techResearched,
                      totalTechCount |-> f.techTotal,
                      techRate |-> techRate,
                      mainPowerType |-> mainPower],
         resource |-> [mined |-> f.mined, remaining |-> remaining,
                       storage |-> <<f.ironPlate, f.copperPlate, f.ironGear, f.copperCable>>,
                       coreResAlert |-> coreResAlert],
         production |-> [machines |-> [m \in MachineNames |-> f.ent[m]],
                         efficiencyRate |-> EfficiencyRate(f.ent, tieUp),
                         efficiencyAlert |-> efficiencyAlert],
         power |-> [totalProduction |-> f.prodTotal,
                    totalConsumption |-> IF f.consTotal = 0 THEN 1 ELSE f.consTotal,
                    powerRatio |-> Num(ratioH), powerStatus |-> powerStatus],
         enemy |-> [totalCount |-> totalCount, nestCount |-> nestCount,
                    threatLevel |-> threatLevel, threatAlert |-> threatAlert],
         optimizeSuggestions |->
           [urgent |-> (IF powerStatus = "insufficient"
                        THEN <<Msg("power-insufficient", ratioH, 0, mainPower)>> ELSE <<>>)
                       \o coreResAlert
                       \o (IF threatLevel = "critical" THEN <<threatAlert0>> ELSE <<>>),
            important |-> (IF powerStatus = "tight"
                           THEN <<Msg("power-tight", ratioH, 0, "")>> ELSE <<>>)
                          \o efficiencyAlert
                          \o (IF threatLevel = "high" THEN <<threatAlert0>> ELSE <<>>),
            suggest |-> (IF techRate.kind = "num" /\ techRate.h < 5000
                         THEN <<Msg("tech-rate", techRate.h, 0, "")>> ELSE <<>>)
                        \o (IF f.ironPlate + f.copperPlate < 1000
                            THEN <<Msg("core-storage", 0, 0, "")>> ELSE <<>>)]]

\* analyzeFactorioSave(saveData): a report, or a thrown TypeError
AnalyzeFactorioSave(d, tieUp) ==
    IF IsHeaderOnly(d)
    THEN [raised |-> FALSE, report |-> BuildHeaderOnlyAnalysis(d)]
    ELSE IF FullModeThrows(d)
    THEN [raised |-> TRUE, report |-> BuildHeaderOnlyAnalysis(NoData)]
    ELSE [raised |-> FALSE, report |-> FullAnalysis(d, tieUp)]

(***************************************************************************)
(* Archive locator and header decode pipeline                              *)
(***************************************************************************)
LEVEL_INIT_NAME == <<"l","e","v","e","l","-","i","n","i","t",".","d","a","t">>

DiagnosticLimit == 10

\* the predicate of files.find(...)
EntryMatches(path) ==
    LET p == ReplaceBackslashes(path)
    IN  EndsWith(p, LEVEL_INIT_NAME) \/ p = LEVEL_INIT_NAME

\* index of the first matching entry, 0 for undefined
FindLevelInitInZip(zipFiles) ==
    LET hits == {i \in 1..Len(zipFiles) : EntryMatches(zipFiles[i].path)}
    IN  IF hits = {} THEN 0 ELSE CHOOSE i \in hits : \A j \in hits : i <= j

\* parseLevelInitData(dataView): throws on bytes it cannot decode
ParseLevelInitData(buf) ==
    IF buf.bytes = "garbage" THEN [throws |-> TRUE, data |-> NoData]
    ELSE [throws |-> FALSE, data |-> buf.data]

ParseFailure(kind, names, more, entry, codec) ==
    [ok |-> FALSE, kind |-> kind, names |-> names, more |-> more,
     entry |-> entry, codecCalled |-> codec, data |-> NoData]

\* parseFactorioSave(source), with the zip already read from source
ParseFactorioSave(zip) ==
    IF ~zip.opens THEN ParseFailure("open", <<>>, FALSE, 0, FALSE)
    ELSE
      LET idx == FindLevelInitInZip(zip.files)
          n == Len(zip.files)
      IN  IF idx = 0
          THEN ParseFailure("no-level-init",
                            Join([i \in 1..Min(DiagnosticLimit, n) |-> zip.files[i].path]),
                            n > DiagnosticLimit, 0, FALSE)
          ELSE
            LET buf == zip.files[idx].buf
            IN  IF buf.bytes = "unreadable"
                THEN ParseFailure("read", <<>>, FALSE, idx, FALSE)
                ELSE IF buf.bytes = "empty"
                THEN ParseFailure("empty", <<>>, FALSE, idx, FALSE)
                ELSE LET r == ParseLevelInitData(buf)
                     IN  IF r.throws
                         THEN ParseFailure("codec", <<>>, FALSE, idx, TRUE)
                         ELSE [ok |-> TRUE, kind |-> "ok", names |-> <<>>,
                               more |-> FALSE, entry |-> idx,
                               codecCalled |-> TRUE, data |-> r.data]

(***************************************************************************)
(* Filename normalizer and path helpers                                    *)
(***************************************************************************)
Range(seq) == {seq[i] : i \in 1..Len(seq)}

\* the escapes the model's names use; any other %xx is malformed (URIError)
PercentTable == [e \in {<<"2", "E">>, <<"2", "5">>, <<"4", "1">>} |->
                   IF e = <<"2", "E">> THEN "." ELSE IF e = <<"2", "5">> THEN "%" ELSE "A"]

\* decodeURIComponent(fileName)
RECURSIVE DecodeURIComponent(_)
DecodeURIComponent(str) ==
    IF str = <<>> THEN [throws |-> FALSE, value |-> <<>>]
    ELSE IF Head(str) # "%"
    THEN LET rest == DecodeURIComponent(Tail(str))
         IN  [throws |-> rest.throws, value |-> <<Head(str)>> \o rest.value]
    ELSE IF Len(str) < 3 \/ SubSeq(str, 2, 3) \notin DOMAIN PercentTable
    THEN [throws |-> TRUE, value |-> <<>>]
    ELSE LET rest == DecodeURIComponent(SubSeq(str, 4, Len(str)))
         IN  [throws |-> rest.throws,
              value |-> <<PercentTable[SubSeq(str, 2, 3)]>> \o rest.value]

\* characters outside ASCII that the model's names use, each one token, with
\* its Latin-1 byte: "A-tilde" 0xC3, "copyright" 0xA9, "e-acute" 0xE9;
\* "U+FFFD" is the replacement character and "cjk" is U+9A69.
\* Of these garbledPattern holds e-acute only.
GarbledChars == {"e-acute"}

\* /[\u4e00-\u9fff]/.test(str)
ContainsChinese(str) == "cjk" \in Range(str)

\* Buffer.from(fileName, "latin1").toString("utf8"): each character gives its
\* low byte (U+FFFD gives 0xFD, U+9A69 gives 0x69 "i"); C3 A9 is the UTF-8
\* form of e-acute and E9 A9 A9 that of U+9A69; every maximal ill-formed
\* byte run becomes one U+FFFD
RECURSIVE Latin1ToUtf8(_)
Latin1ToUtf8(str) ==
    IF str = <<>> THEN <<>>
    ELSE IF Len(str) >= 2 /\ str[1] = "A-tilde" /\ str[2] = "copyright"
    THEN <<"e-acute">> \o Latin1ToUtf8(SubSeq(str, 3, Len(str)))
    ELSE IF Len(str) >= 3 /\ str[1] = "e-acute" /\ str[2] = "copyright" /\ str[3] = "copyright"
    THEN <<"cjk">> \o Latin1ToUtf8(SubSeq(str, 4, Len(str)))
    ELSE IF Len(str) >= 2 /\ str[1] = "e-acute" /\ str[2] = "copyright"
    THEN <<"U+FFFD">> \o Latin1ToUtf8(SubSeq(str, 3, Len(str)))
    ELSE IF Head(str) \in {"A-tilde", "e-acute", "copyright", "U+FFFD"}
    THEN <<"U+FFFD">> \o Latin1ToUtf8(Tail(str))
    ELSE IF Head(str) = "cjk"
    THEN <<"i">> \o Latin1ToUtf8(Tail(str))
    ELSE <<Head(str)>> \o Latin1ToUtf8(Tail(str))

\* looksLikeGarbled(str)
LooksLikeGarbled(str) == Range(str) \cap GarbledChars # {} /\ ~ContainsChinese(str)

Unnamed == <<"u", "n", "n", "a", "m", "e", "d">>

\* decodeFileName(fileName); isValidUTF8 holds of every name of the model
\* (none holds a lone surrogate), so the second attempt never applies
DecodeFileName(fileName) ==
    IF fileName = <<>> THEN Unnamed
    ELSE LET url == IF "%" \in Range(fileName) THEN DecodeURIComponent(fileName)
                    ELSE [throws |-> TRUE, value |-> <<>>]
         IN  IF ~url.throws THEN url.value
             ELSE IF LooksLikeGarbled(fileName) THEN Latin1ToUtf8(fileName)
             ELSE fileName

\* index of the last occurrence of c in str, 0 if none
LastIndexOf(str, c) ==
    LET hits == {i \in 1..Len(str) : str[i] = c}
    IN  IF hits = {} THEN 0 ELSE CHOOSE i \in hits : \A j \in hits : j <= i

\* path.extname(p)
ExtName(p) ==
    LET base == SubSeq(p, LastIndexOf(p, "/") + 1, Len(p))
        dot == LastIndexOf(base, ".")
    IN  IF dot <= 1 \/ base = <<".", ".">> THEN <<>>
        ELSE SubSeq(base, dot, Len(base))

DotZip == <<".", "z", "i", "p">>

\* the values randomUUID() returns, in the order it returns them; a value is
\* one token of a name
UUIDS == <<"uuid-1", "uuid-2", "uuid-3", "uuid-4", "uuid-5", "uuid-6", "uuid-7", "uuid-8">>

RandomUUID(n) == <<UUIDS[n]>>

\* a stored name built from the original name, as FileTransferRepository does
SafeFilenameFromOriginal(uuid, originalName) ==
    IF ExtName(originalName) # <<>> THEN originalName ELSE originalName \o DotZip

\* safeFilename of saveFileAsync
SafeFilename(uuid, originalName) ==
    uuid \o (IF ExtName(originalName) # <<>> THEN ExtName(originalName) ELSE DotZip)

\* segments of a path between "/" separators
RECURSIVE Split(_)
Split(p) ==
    LET hits == {i \in 1..Len(p) : p[i] = "/"}
    IN  IF hits = {} THEN <<p>>
        ELSE LET i == CHOOSE k \in hits : \A j \in hits : k <= j
             IN  <<SubSeq(p, 1, i - 1)>> \o Split(SubSeq(p, i + 1, Len(p)))

\* path.normalize on a relative path given as segments
RECURSIVE Normalize(_, _)
Normalize(segs, stack) ==
    IF segs = <<>> THEN stack
    ELSE LET s == Head(segs)
         IN  IF s = <<>> \/ s = <<".">> THEN Normalize(Tail(segs), stack)
             ELSE IF s = <<".", ".">>
             THEN IF stack # <<>> /\ stack[Len(stack)] # <<".", ".">>
                  THEN Normalize(Tail(segs), SubSeq(stack, 1, Len(stack) - 1))
                  ELSE Normalize(Tail(segs), Append(stack, s))
             ELSE Normalize(Tail(segs), Append(stack, s))

uploadDir == <<"game-saves">>

\* path.join(this.uploadDir, filename), as segments relative to the working directory
PathJoin(dir, filename) == Normalize(<<dir>> \o Split(filename), <<>>)

(***************************************************************************)
(* File system: the upload directory, and one file of the deployment       *)
(* beside it in the working directory                                      *)
(***************************************************************************)
OutsideFile == <<"package.json">>

NoEntries == [n \in {} |-> 0]

\* fs.access(path)
Access(fs, exists, path) ==
    \/ path = <<>>
    \/ path = <<uploadDir>> /\ exists
    \/ Len(path) = 2 /\ path[1] = uploadDir /\ exists /\ path[2] \in DOMAIN fs
    \/ path = <<OutsideFile>>
    \/ path # <<>> /\ \A i \in 1..Len(path) : path[i] = <<".", ".">>

\* what the stored bytes are: the zip listing unzipper opens
ArchiveOf(bytes) ==
    CASE bytes = "no-level-init" ->
           [opens |-> TRUE,
            files |-> <<[path |-> <<"r", ".", "t", "x", "t">>,
                         buf |-> [bytes |-> "text", data |-> NoData]]>>]
      [] bytes = "header" ->
           [opens |-> TRUE,
            files |-> <<[path |-> <<"s", "/">> \o LEVEL_INIT_NAME,
                         buf |-> [bytes |-> "header", data |-> HeaderOnlyData]]>>]
      [] bytes = "broken-snapshot" ->
           [opens |-> TRUE,
            files |-> <<[path |-> <<"s", "/">> \o LEVEL_INIT_NAME,
                         buf |-> [bytes |-> "snapshot",
                                  data |-> FullSnapshot([DefaultFull EXCEPT !.missing = {"forces"}])]]>>]
      [] bytes = "snapshot" ->
           [opens |-> TRUE,
            files |-> <<[path |-> <<"s", "/">> \o LEVEL_INIT_NAME,
                         buf |-> [bytes |-> "snapshot", data |-> FullSnapshot(DefaultFull)]]>>]
      [] OTHER -> [opens |-> FALSE, files |-> <<>>]

\* unzipper.Open.file(path.resolve(source)): a missing path, a directory and
\* a file that is no zip all fail to open
ReadArchive(fs, exists, path) ==
    IF Len(path) = 2 /\ path[1] = uploadDir /\ exists /\ path[2] \in DOMAIN fs
       /\ fs[path[2]].isFile
    THEN ArchiveOf(fs[path[2]].bytes)
    ELSE [opens |-> FALSE, files |-> <<>>]

\* findFileByFilename(filename): the joined path, or <<"null">>
Null == <<<<"null">>>>

\* findFileByFilename without the fs.access probe
FindFileByFilenameNoAccess(fs, exists, filename) == PathJoin(uploadDir, filename)

FindFileByFilename(fs, exists, filename) ==
    LET filePath == PathJoin(uploadDir, filename)
    IN  IF Access(fs, exists, filePath) THEN filePath ELSE Null

(***************************************************************************)
(* Upload validation                                                       *)
(***************************************************************************)
allowedMimeTypes == {"application/zip", "application/x-zip-compressed",
                     "application/x-rar-compressed", "application/x-rar",
                     "application/x-7z-compressed", "application/gzip",
                     "application/x-gzip", "application/x-tar"}

maxSize == 200 * 1024 * 1024

\* uploadFile without its size check
UploadRejectionTypeOnly(file) ==
    IF file.mimetype \notin allowedMimeTypes THEN "Invalid file type" ELSE ""

\* the two checks of uploadFile, in order; "" when the file passes
UploadRejection(file) ==
    IF file.mimetype \notin allowedMimeTypes THEN "Invalid file type"
    ELSE IF file.size > maxSize THEN "File size exceeds the maximum limit"
    ELSE ""

(***************************************************************************)
(* The analyze route: POST /analyze/:filename                              *)
(***************************************************************************)
NoHeaders == [h \in {} |-> ""]

\* what noCache sets on the response
NoCacheHeaders ==
    [h \in {"Cache-Control", "Pragma", "Expires"} |->
       IF h = "Cache-Control" THEN "no-store, no-cache, must-revalidate, proxy-revalidate"
       ELSE IF h = "Pragma" THEN "no-cache" ELSE "0"]

\* the handlers of the route with noCache registered last
AnalyzeRouteNoCacheLast == <<"validateRequest", "analyzeGameSave", "noCache">>

\* the handlers of the route, in the order they are registered
AnalyzeRoute == <<"noCache", "validateRequest", "analyzeGameSave">>

\* the headers set on res when the handler runs: each handler calls next()
\* after its own work, so those of the handlers registered before it
ResHeaders(route, handler) ==
    IF \E i, j \in 1..Len(route) : i < j /\ route[i] = "noCache" /\ route[j] = handler
    THEN NoCacheHeaders ELSE NoHeaders

\* AnalyzeGameSaveSchema: params.filename is a string of at least one character
ParamsValid(filename) == Len(filename) >= 1

(***************************************************************************)
(* Retention                                                               *)
(***************************************************************************)
\* entries.filter((e) => e.isFile())
RegularFiles(fs) == {n \in DOMAIN fs : fs[n].isFile}

\* withStat.sort((a, b) => a.mtimeMs - b.mtimeMs), names in ascending mtime
RECURSIVE SortByMtime(_, _)
SortByMtime(names, fs) ==
    IF names = {} THEN <<>>
    ELSE LET first == CHOOSE n \in names : \A m \in names : fs[n].mtimeMs <= fs[m].mtimeMs
         IN  <<first>> \o SortByMtime(names \ {first}, fs)

\* the slice taken from the wrong end: withStat.slice(maxCount)
ToRemoveNewest(withStat, maxCount) == SubSeq(withStat, maxCount + 1, Len(withStat))

\* withStat.slice(0, withStat.length - maxCount)
ToRemove(withStat, maxCount) == SubSeq(withStat, 1, Len(withStat) - maxCount)

Restrict(fs, names) == [n \in names |-> fs[n]]

(***************************************************************************)
(* Processes and inputs                                                    *)
(***************************************************************************)
Uploaders == {"u1", "u2"}
Pruners == {"p1"}
Analyzers == {"a1"}

NoFile == [mimetype |-> "", size |-> 0, originalname |-> <<>>, bytes |-> ""]
IdleUpload == [pc |-> "idle", file |-> NoFile, filename |-> <<>>, originalName |-> <<>>]
NoResponse == [op |-> "none"]
NoUpload == [op |-> "upload", hasFile |-> FALSE, file |-> NoFile, statusCode |-> 0,
             success |-> FALSE, filename |-> <<>>, originalName |-> <<>>]

IdlePrune == [pc |-> "idle", maxCount |-> 0, listing |-> {}, toRemove |-> <<>>,
              prior |-> NoEntries, clean |-> TRUE, attempted |-> <<>>, failed |-> {}]

IdleAnalyzer == [pc |-> "idle", filename |-> <<>>, filePath |-> Null, headers |-> NoHeaders]
NoReport == BuildHeaderOnlyAnalysis(NoData)
NoAnalysis == [op |-> "analyze", filename |-> <<>>, filePath |-> Null, statusCode |-> 0,
               headers |-> NoHeaders, validated |-> TRUE,
               success |-> FALSE, parseAttempted |-> FALSE, parseOk |-> FALSE,
               analysisAttempted |-> FALSE, analysisRaised |-> FALSE,
               hasReport |-> FALSE, report |-> NoReport]

SaveZip == <<"s", ".", "z", "i", "p">>
SaveTarEscaped == <<"s", "%", "2", "E", "t", "a", "r">>

\* the files clients upload: rejected ones (wrong type, 5 bytes; wrong type
\* and too large; right type and too large) and accepted ones, among them a
\* file of exactly maxSize bytes, one without a name, and one named like a
\* name the server generated before
UploadInputs(issued) ==
    {[mimetype |-> "text/plain", size |-> 5, originalname |-> SaveZip, bytes |-> "header"],
     [mimetype |-> "text/plain", size |-> maxSize + 1, originalname |-> SaveZip, bytes |-> "header"],
     [mimetype |-> "application/zip", size |-> maxSize + 1, originalname |-> SaveZip, bytes |-> "header"],
     [mimetype |-> "application/zip", size |-> 1024, originalname |-> SaveZip, bytes |-> "header"],
     [mimetype |-> "application/zip", size |-> maxSize, originalname |-> <<>>, bytes |-> "broken-snapshot"],
     [mimetype |-> "application/gzip", size |-> 1024, originalname |-> SaveTarEscaped, bytes |-> "no-level-init"]}
    \cup {[mimetype |-> "application/zip", size |-> 1024, originalname |-> issued[1], bytes |-> "snapshot"] :
            i \in {1} \cap DOMAIN issued}

\* identifiers clients ask to analyze: generated names, a name never
\* generated, and identifiers that leave the upload directory
AnalyzeInputs(issued) ==
    issued \cup {<<"x", ".", "z", "i", "p">>, <<".", ".", "/">> \o OutsideFile}

\* another call changed the directory while these retention runs were in flight
Disturb(pr, except) ==
    [q \in DOMAIN pr |-> IF q # except /\ pr[q].pc # "idle"
                         THEN [pr[q] EXCEPT !.clean = FALSE] ELSE pr[q]]

(***************************************************************************)
(* Upload: GameSaveController.uploadFile, GameSaveService.uploadFile,      *)
(* GameSaveRepository.saveFileAsync                                        *)
(***************************************************************************)
UploadNoFile(u) ==
    /\ uploads[u].pc = "idle"
    /\ response' = [NoUpload EXCEPT !.statusCode = 400]
    /\ UNCHANGED <<dirExists, files, clock, nextUuid, generated, evicted, uploads, prunes, analyzers>>

\* up to the await of fs.writeFile
UploadFile(u, file) ==
    /\ uploads[u].pc = "idle"
    /\ IF UploadRejection(file) # ""
       THEN /\ response' = [NoUpload EXCEPT !.hasFile = TRUE,
                                             !.file = file, !.statusCode = 400]
            /\ UNCHANGED <<dirExists, nextUuid, uploads>>
       ELSE /\ nextUuid <= MaxUploads
            /\ dirExists' = TRUE
            /\ LET originalName == DecodeFileName(file.originalname)
               IN  uploads' = [uploads EXCEPT ![u] =
                                 [pc |-> "writing", file |-> file,
                                  filename |-> SafeFilename(RandomUUID(nextUuid), originalName),
                                  originalName |-> originalName]]
            /\ nextUuid' = nextUuid + 1
            /\ response' = NoResponse
    /\ UNCHANGED <<files, clock, generated, evicted, prunes, analyzers>>

\* fs.writeFile completes, saveFileAsync returns, the response is sent
UploadWritten(u) ==
    /\ uploads[u].pc = "writing"
    /\ LET up == uploads[u]
       IN  /\ files' = [n \in DOMAIN files \cup {up.filename} |->
                          IF n = up.filename
                          THEN [isFile |-> TRUE, mtimeMs |-> clock, bytes |-> up.file.bytes]
                          ELSE files[n]]
           /\ generated' = Append(generated, up.filename)
           /\ response' = [op |-> "upload", hasFile |-> TRUE, file |-> up.file,
                             statusCode |-> 200, success |-> TRUE,
                             filename |-> up.filename, originalName |-> up.originalName]
    /\ clock' = clock + 1
    /\ uploads' = [uploads EXCEPT ![u] = IdleUpload]
    /\ prunes' = Disturb(prunes, "")
    /\ UNCHANGED <<dirExists, nextUuid, evicted, analyzers>>

\* fs.writeFile rejects before creating the file; uploadFile catches
UploadWriteFails(u) ==
    /\ uploads[u].pc = "writing"
    /\ response' = [NoUpload EXCEPT !.hasFile = TRUE,
                                      !.file = uploads[u].file, !.statusCode = 500]
    /\ uploads' = [uploads EXCEPT ![u] = IdleUpload]
    /\ UNCHANGED <<dirExists, files, clock, nextUuid, generated, evicted, prunes, analyzers>>

(***************************************************************************)
(* Retention: GameSaveRepository.pruneOldFilesIfExceed                     *)
(***************************************************************************)
\* ensureUploadDirExists, readdir, filter, the early return
PruneList(p, maxCount) ==
    /\ prunes[p].pc = "idle"
    /\ dirExists' = TRUE
    /\ LET listing == RegularFiles(files)
       IN  IF Cardinality(listing) <= maxCount
           THEN /\ response' = [op |-> "prune", threw |-> FALSE, clean |-> TRUE,
                                 maxCount |-> maxCount,
                                 prior |-> Restrict(files, listing),
                                 after |-> Restrict(files, listing),
                                 attempted |-> <<>>, failed |-> {}]
                /\ UNCHANGED prunes
           ELSE /\ prunes' = [prunes EXCEPT ![p] =
                                [pc |-> "stat", maxCount |-> maxCount, listing |-> listing,
                                 toRemove |-> <<>>, prior |-> Restrict(files, listing),
                                 clean |-> TRUE, attempted |-> <<>>, failed |-> {}]]
                /\ response' = NoResponse
    /\ UNCHANGED <<files, clock, nextUuid, generated, evicted, uploads, analyzers>>

\* the comparator turned round: withStat.sort((a, b) => b.mtimeMs - a.mtimeMs)
PruneStatNewestFirst(p) ==
    /\ prunes[p].pc = "stat"
    /\ LET pr == prunes[p]
           ascending == SortByMtime(pr.listing, files)
           descending == [i \in 1..Len(ascending) |-> ascending[Len(ascending) + 1 - i]]
       IN  IF pr.listing \subseteq DOMAIN files
           THEN /\ prunes' = [prunes EXCEPT ![p].pc = "unlink",
                                            ![p].toRemove = ToRemove(descending, pr.maxCount)]
                /\ response' = NoResponse
           ELSE /\ prunes' = [prunes EXCEPT ![p] = IdlePrune]
                /\ response' = [op |-> "prune", threw |-> TRUE, clean |-> FALSE,
                                 maxCount |-> pr.maxCount, prior |-> pr.prior,
                                 after |-> Restrict(files, RegularFiles(files)),
                                 attempted |-> <<>>, failed |-> {}]
    /\ UNCHANGED <<dirExists, files, clock, nextUuid, generated, evicted, uploads, analyzers>>

\* Promise.all of fs.stat, sort, slice; a stat of a vanished file rejects
PruneStat(p) ==
    /\ prunes[p].pc = "stat"
    /\ LET pr == prunes[p]
       IN  IF pr.listing \subseteq DOMAIN files
           THEN /\ prunes' = [prunes EXCEPT ![p].pc = "unlink",
                                            ![p].toRemove =
                                              ToRemove(SortByMtime(pr.listing, files), pr.maxCount)]
                /\ response' = NoResponse
           ELSE /\ prunes' = [prunes EXCEPT ![p] = IdlePrune]
                /\ response' = [op |-> "prune", threw |-> TRUE, clean |-> FALSE,
                                 maxCount |-> pr.maxCount, prior |-> pr.prior,
                                 after |-> Restrict(files, RegularFiles(files)),
                                 attempted |-> <<>>, failed |-> {}]
    /\ UNCHANGED <<dirExists, files, clock, nextUuid, generated, evicted, uploads, analyzers>>

\* the end of one iteration of the for loop; failed holds the names whose
\* unlink rejected so far
PruneAdvance(p, clean, failed, fs) ==
    LET pr == prunes[p]
        attempted == Append(pr.attempted, Head(pr.toRemove))
    IN  IF Len(pr.toRemove) = 1
        THEN /\ prunes' = [(IF fs # files THEN Disturb(prunes, p) ELSE prunes)
                              EXCEPT ![p] = IdlePrune]
             /\ response' = [op |-> "prune", threw |-> FALSE, clean |-> clean,
                              maxCount |-> pr.maxCount, prior |-> pr.prior,
                              after |-> Restrict(fs, RegularFiles(fs)),
                              attempted |-> attempted, failed |-> failed]
        ELSE /\ prunes' = [(IF fs # files THEN Disturb(prunes, p) ELSE prunes) EXCEPT
                             ![p].toRemove = Tail(pr.toRemove), ![p].clean = clean,
                             ![p].attempted = attempted, ![p].failed = failed]
             /\ response' = NoResponse

\* fs.unlink succeeds, or finds the file gone and the catch swallows ENOENT
PruneUnlink(p) ==
    /\ prunes[p].pc = "unlink"
    /\ LET pr == prunes[p]
           f == Head(pr.toRemove)
       IN  IF f \in DOMAIN files
           THEN /\ files' = Restrict(files, DOMAIN files \ {f})
                /\ evicted' = evicted \cup {f}
                /\ PruneAdvance(p, pr.clean, pr.failed, files')
           ELSE /\ UNCHANGED <<files, evicted>>
                /\ PruneAdvance(p, FALSE, pr.failed \cup {f}, files)
    /\ UNCHANGED <<dirExists, clock, nextUuid, generated, uploads, analyzers>>

\* fs.unlink of an existing file rejects and nothing catches it: the loop
\* and the call end with the error
PruneUnlinkFailsAborts(p) ==
    /\ prunes[p].pc = "unlink"
    /\ Head(prunes[p].toRemove) \in DOMAIN files
    /\ LET pr == prunes[p]
       IN  response' = [op |-> "prune", threw |-> TRUE, clean |-> FALSE,
                        maxCount |-> pr.maxCount, prior |-> pr.prior,
                        after |-> Restrict(files, RegularFiles(files)),
                        attempted |-> Append(pr.attempted, Head(pr.toRemove)),
                        failed |-> pr.failed \cup {Head(pr.toRemove)}]
    /\ prunes' = [prunes EXCEPT ![p] = IdlePrune]
    /\ UNCHANGED <<dirExists, files, clock, nextUuid, generated, evicted, uploads, analyzers>>

\* fs.unlink of an existing file rejects (EPERM, EBUSY); the catch logs it
PruneUnlinkFails(p) ==
    /\ prunes[p].pc = "unlink"
    /\ Head(prunes[p].toRemove) \in DOMAIN files
    /\ PruneAdvance(p, FALSE, prunes[p].failed \cup {Head(prunes[p].toRemove)}, files)
    /\ UNCHANGED <<dirExists, files, clock, nextUuid, generated, evicted, uploads, analyzers>>

(***************************************************************************)
(* Analyze: GameSaveService.analyzeGameSave                                *)
(***************************************************************************)
\* the route's handlers up to the controller, then findFileByFilename and
\* the 404 return
AnalyzeResolve(a, filename) ==
    /\ analyzers[a].pc = "idle"
    /\ IF ~ParamsValid(filename)
       THEN /\ response' = [NoAnalysis EXCEPT
                               !.filename = filename, !.statusCode = 400,
                               !.validated = FALSE,
                               !.headers = ResHeaders(AnalyzeRoute, "validateRequest")]
            /\ UNCHANGED analyzers
       ELSE LET filePath == FindFileByFilename(files, dirExists, filename)
                headers == ResHeaders(AnalyzeRoute, "analyzeGameSave")
            IN  IF filePath = Null
                THEN /\ response' = [NoAnalysis EXCEPT !.filename = filename,
                                                           !.statusCode = 404,
                                                           !.headers = headers]
                     /\ UNCHANGED analyzers
                ELSE /\ analyzers' = [analyzers EXCEPT ![a] =
                                        [pc |-> "parse", filename |-> filename,
                                         filePath |-> filePath, headers |-> headers]]
                     /\ response' = NoResponse
    /\ UNCHANGED <<dirExists, files, clock, nextUuid, generated, evicted, uploads, prunes>>

\* analyzeGameSave with a parse failure falling through to the outer catch
AnalysisResponseOuterCatch(an, parsed, result) ==
    LET base == [NoAnalysis EXCEPT !.filename = an.filename, !.filePath = an.filePath,
                                   !.headers = an.headers, !.parseAttempted = TRUE]
    IN  IF ~parsed.ok \/ result.raised
        THEN [base EXCEPT !.parseOk = parsed.ok, !.analysisAttempted = parsed.ok,
                          !.analysisRaised = parsed.ok, !.statusCode = 500]
        ELSE [base EXCEPT !.parseOk = TRUE, !.analysisAttempted = TRUE,
                          !.statusCode = 200, !.success = TRUE,
                          !.hasReport = TRUE, !.report = result.report]

\* the response analyzeGameSave builds once the file was found
AnalysisResponse(an, parsed, result) ==
    LET base == [NoAnalysis EXCEPT !.filename = an.filename, !.filePath = an.filePath,
                                   !.headers = an.headers, !.parseAttempted = TRUE]
    IN  IF ~parsed.ok THEN [base EXCEPT !.statusCode = 400]
        ELSE IF result.raised
        THEN [base EXCEPT !.parseOk = TRUE, !.analysisAttempted = TRUE,
                          !.analysisRaised = TRUE, !.statusCode = 500]
        ELSE [base EXCEPT !.parseOk = TRUE, !.analysisAttempted = TRUE,
                          !.statusCode = 200, !.success = TRUE,
                          !.hasReport = TRUE, !.report = result.report]

\* parseFactorioSave, analyzeFactorioSave and the three returns after them
AnalyzeParse(a, tieUp) ==
    /\ analyzers[a].pc = "parse"
    /\ LET an == analyzers[a]
           parsed == ParseFactorioSave(ReadArchive(files, dirExists, an.filePath))
           result == AnalyzeFactorioSave(parsed.data, tieUp)
       IN  response' = AnalysisResponse(an, parsed, result)
    /\ analyzers' = [analyzers EXCEPT ![a] = IdleAnalyzer]
    /\ UNCHANGED <<dirExists, files, clock, nextUuid, generated, evicted, uploads, prunes>>

(***************************************************************************)
(* Spec: the storage root under concurrent requests                        *)
(***************************************************************************)
\* a directory an operator left in the upload directory
ForeignDir == <<"b", "a", "k">>

StoreIdle ==
    /\ clock = 1
    /\ nextUuid = 1
    /\ generated = <<>>
    /\ evicted = {}
    /\ uploads = [u \in Uploaders |-> IdleUpload]
    /\ prunes = [p \in Pruners |-> IdlePrune]
    /\ analyzers = [a \in Analyzers |-> IdleAnalyzer]
    /\ response = NoResponse
    /\ cap = 0

ParseIdle ==
    /\ archive = [opens |-> FALSE, files |-> <<>>]
    /\ parseResult = [done |-> FALSE, r |-> ParseFailure("", <<>>, FALSE, 0, FALSE)]

AnalysisIdle ==
    /\ saveData = NoData
    /\ fpTieUp = FALSE
    /\ analysis = [done |-> FALSE, raised |-> FALSE, report |-> NoReport]

NameIdle ==
    /\ rawName = <<>>
    /\ decoded = [pass |-> 0, once |-> <<>>, twice |-> <<>>]

Init ==
    /\ StoreIdle
    /\ \/ dirExists = FALSE /\ files = NoEntries
       \/ /\ dirExists = TRUE
          /\ files = [n \in {ForeignDir} |-> [isFile |-> FALSE, mtimeMs |-> 0, bytes |-> ""]]
    /\ ParseIdle
    /\ AnalysisIdle
    /\ NameIdle

Next ==
    \/ /\ \/ \E u \in Uploaders : UploadNoFile(u)
          \/ \E u \in Uploaders : \E file \in UploadInputs(generated) : UploadFile(u, file)
          \/ \E u \in Uploaders : UploadWritten(u)
          \/ \E u \in Uploaders : UploadWriteFails(u)
          \/ \E p \in Pruners : \E maxCount \in 0..MaxCap : PruneList(p, maxCount)
          \/ \E p \in Pruners : PruneStat(p)
          \/ \E p \in Pruners : PruneUnlink(p)
          \/ \E p \in Pruners : PruneUnlinkFails(p)
          \/ \E a \in Analyzers : \E filename \in AnalyzeInputs(Range(generated)) :
               AnalyzeResolve(a, filename)
          \/ \E a \in Analyzers : \E tieUp \in BOOLEAN : AnalyzeParse(a, tieUp)
       /\ UNCHANGED <<parseVars, analysisVars, nameVars, cap>>

Spec == Init /\ [][Next]_vars

(***************************************************************************)
(* ParseSpec: parseFactorioSave on bounded zip listings                    *)
(***************************************************************************)
Digits == <<"0", "1", "2", "3", "4", "5", "6", "7", "8", "9">>

\* the path of the i-th ordinary entry: "f-1", "f-2", ...
Filler(i) == <<"f", "-">> \o (IF i < 10 THEN <<Digits[i + 1]>>
                              ELSE <<Digits[(i \div 10) + 1], Digits[(i % 10) + 1]>>)

Bak == <<".", "b", "a", "k">>
Old == <<"o", "l", "d", "-">>

\* entry paths around the header's name
TestPaths ==
    {LEVEL_INIT_NAME,
     <<"x", "/">> \o LEVEL_INIT_NAME,
     <<"a", "/", "b", "/">> \o LEVEL_INIT_NAME,
     <<"x", "\\">> \o LEVEL_INIT_NAME,
     LEVEL_INIT_NAME \o Bak,
     <<"x", "/">> \o Old \o LEVEL_INIT_NAME,
     Old \o LEVEL_INIT_NAME,
     LEVEL_INIT_NAME \o <<"/", "x">>,
     <<>>}

TextBuffer == [bytes |-> "text", data |-> NoData]

Buffers ==
    {[bytes |-> "unreadable", data |-> NoData],
     [bytes |-> "empty", data |-> NoData],
     [bytes |-> "garbage", data |-> NoData],
     [bytes |-> "header", data |-> HeaderOnlyData],
     [bytes |-> "snapshot", data |-> FullSnapshot(DefaultFull)]}

\* n entries: ordinary ones, the entry under test at pos, and, when second
\* holds, a well-formed header as the last entry
Listing(n, pos, path, buf, second) ==
    [i \in 1..n |->
       IF i = pos THEN [path |-> path, buf |-> buf]
       ELSE IF second /\ i = n
       THEN [path |-> <<"z", "/">> \o LEVEL_INIT_NAME,
             buf |-> [bytes |-> "header", data |-> HeaderOnlyData]]
       ELSE [path |-> Filler(i), buf |-> TextBuffer]]

ArchiveInputs ==
    {[opens |-> FALSE, files |-> <<>>]}
    \cup {[opens |-> TRUE, files |-> Listing(n, 0, <<>>, TextBuffer, second)] :
            n \in 0..MaxEntries, second \in BOOLEAN}
    \cup UNION {{[opens |-> TRUE, files |-> Listing(n, pos, path, buf, second)] :
                   pos \in 1..n, path \in TestPaths, buf \in Buffers, second \in BOOLEAN} :
                n \in 1..MaxEntries}

ParseInit ==
    /\ archive \in ArchiveInputs
    /\ parseResult = [done |-> FALSE, r |-> ParseFailure("", <<>>, FALSE, 0, FALSE)]
    /\ AnalysisIdle
    /\ NameIdle
    /\ StoreIdle /\ dirExists = FALSE /\ files = NoEntries

ParseRun ==
    /\ ~parseResult.done
    /\ parseResult' = [done |-> TRUE, r |-> ParseFactorioSave(archive)]
    /\ UNCHANGED <<archive, analysisVars, nameVars, storeVars>>

ParseNext == ParseRun

ParseSpec == ParseInit /\ [][ParseNext]_vars

(***************************************************************************)
(* AnalysisSpec: analyzeFactorioSave on bounded save data                  *)
(***************************************************************************)
\* inputs without a full snapshot: undefined, null, and records lacking
\* game, map or map.surfaces[0]
DegradedInputs ==
    {MkSaveData("undefined", FALSE, FALSE, FALSE, FALSE, FALSE, DefaultFull),
     MkSaveData("null", FALSE, FALSE, FALSE, FALSE, FALSE, DefaultFull)}
    \cup {d \in {MkSaveData("object", hn, hv, g, m, s0, DefaultFull) :
                    hn \in BOOLEAN, hv \in BOOLEAN,
                    g \in BOOLEAN, m \in BOOLEAN, s0 \in BOOLEAN} :
             /\ d.surfaces0 => d.map
             /\ ~(d.game /\ d.map /\ d.surfaces0)}

PowerConsumptions == {0, 1, 7, 1000}

PowerInputs ==
    {FullSnapshot([DefaultFull EXCEPT !.prodTotal = p, !.consTotal = c]) :
       p \in 0..MaxPower, c \in PowerConsumptions}

ThreatInputs ==
    {FullSnapshot([DefaultFull EXCEPT
                     !.ent = [e \in EntityNames |->
                                IF e = "biter-nest" THEN b
                                ELSE IF e = "spitter-nest" THEN sp
                                ELSE IF e = "small-biter" THEN u
                                ELSE IF e = "tree" THEN 3 ELSE 0]]) :
       b \in 0..MaxNests, sp \in 0..1, u \in {0, 2}}

MissingInputs ==
    {FullSnapshot([DefaultFull EXCEPT !.missing = {x}]) : x \in NestedStructs}

\* game.tick around the stage thresholds of 10, 50 and 200 hours
StageTicks == {0, 18000, 35999, 36000, 179999, 180000, 719999, 720000}

\* researched technologies around the stage thresholds
StageTechCounts == {0, 29, 30, 79, 80, 149, 150}

\* every technology researched, or 200 technologies (none at all when
\* researched is 0)
StageInputs ==
    {FullSnapshot([DefaultFull EXCEPT !.tick = t, !.techResearched = n, !.techTotal = total]) :
       t \in StageTicks, n \in StageTechCounts, total \in {200}}
    \cup {FullSnapshot([DefaultFull EXCEPT !.tick = t, !.techResearched = n, !.techTotal = n]) :
            t \in StageTicks, n \in StageTechCounts}

\* one ore patch holding 9, under a tenth of the 100 mined
DepletedDeposits == <<[hasAmount |-> TRUE, amount |-> 9]>>

\* an ore patch holding 10, a tenth of the 100 mined, and an entity of the
\* resource's name without an amount
RichDeposits == <<[hasAmount |-> TRUE, amount |-> 10], [hasAmount |-> FALSE, amount |-> 0]>>

\* snapshots for the alert and suggestion rules: any set of core resources
\* nearly exhausted, obsolete machines present or not, few or enough labs,
\* power short, tight or ample, no, ten or thirty nests, low or enough
\* plate stock, early or later in the game
SuggestionInputs ==
    {FullSnapshot([DefaultFull EXCEPT
                     !.tick = t,
                     !.prodTotal = prod,
                     !.ironPlate = plates,
                     !.mined = [r \in DOMAIN DefaultFull.mined |-> 100],
                     !.deposits = [r \in DOMAIN DefaultFull.deposits |->
                                     IF r \in depleted THEN DepletedDeposits ELSE RichDeposits],
                     !.ent = [e \in EntityNames |->
                                IF e = "stone-furnace" THEN stone
                                ELSE IF e = "burner-mining-drill" THEN burner
                                ELSE IF e = "steel-furnace" THEN 1
                                ELSE IF e = "lab" THEN labs
                                ELSE IF e = "biter-nest" THEN nests
                                ELSE 0]]) :
       t \in {0, 36000}, prod \in {800, 1000, 1200}, plates \in {0, 600},
       depleted \in SUBSET {"iron-ore", "copper-ore", "coal", "crude-oil"},
       stone \in {0, 2}, burner \in {0, 1}, labs \in {4, 5}, nests \in {0, 10, 30}}

\* snapshots with every mix of furnaces and mining drills
EfficiencyInputs ==
    {FullSnapshot([DefaultFull EXCEPT
                     !.ent = [e \in EntityNames |->
                                IF e = "stone-furnace" THEN stone
                                ELSE IF e = "steel-furnace" THEN steel
                                ELSE IF e = "electric-mining-drill" THEN electric
                                ELSE IF e = "burner-mining-drill" THEN burner
                                ELSE IF e = "assembling-machine-1" THEN 7
                                ELSE 0]]) :
       stone \in 0..MaxMachines, steel \in 0..MaxMachines,
       electric \in 0..MaxMachines, burner \in 0..MaxMachines}

AnalysisInputs ==
    DegradedInputs \cup PowerInputs \cup ThreatInputs \cup MissingInputs \cup StageInputs
    \cup SuggestionInputs \cup EfficiencyInputs

AnalysisInit ==
    /\ saveData \in AnalysisInputs
    /\ fpTieUp \in BOOLEAN
    /\ analysis = [done |-> FALSE, raised |-> FALSE, report |-> NoReport]
    /\ ParseIdle
    /\ NameIdle
    /\ StoreIdle /\ dirExists = FALSE /\ files = NoEntries

AnalysisRun ==
    /\ ~analysis.done
    /\ LET result == AnalyzeFactorioSave(saveData, fpTieUp)
       IN  analysis' = [done |-> TRUE, raised |-> result.raised, report |-> result.report]
    /\ UNCHANGED <<saveData, fpTieUp, parseVars, nameVars, storeVars>>

AnalysisNext == AnalysisRun

AnalysisSpec == AnalysisInit /\ [][AnalysisNext]_vars

(***************************************************************************)
(* NameSpec: decodeFileName on bounded raw names, and on its own result    *)
(***************************************************************************)
\* fragments of raw names: percent-escapes ("%25" decodes to "%"), a lone
\* "%", the text an escape is made of, an extension, and the Latin-1
\* reading of UTF-8 bytes
NamePieces ==
    {<<"%", "2", "5">>, <<"%", "4", "1">>, <<"%">>, <<"4", "1">>, <<"s">>, DotZip,
     <<"A-tilde">>, <<"copyright">>, <<"e-acute">>}

RECURSIVE NamesOf(_)
NamesOf(k) ==
    IF k = 0 THEN {<<>>}
    ELSE LET shorter == NamesOf(k - 1)
         IN  shorter \cup {n \o piece : n \in shorter, piece \in NamePieces}

NameInputs == NamesOf(MaxPieces)

NameInit ==
    /\ rawName \in NameInputs
    /\ decoded = [pass |-> 0, once |-> <<>>, twice |-> <<>>]
    /\ ParseIdle
    /\ AnalysisIdle
    /\ StoreIdle /\ dirExists = FALSE /\ files = NoEntries

\* originalName = this.decodeFileName(file.originalname)
DecodeOnce ==
    /\ decoded.pass = 0
    /\ decoded' = [pass |-> 1, once |-> DecodeFileName(rawName), twice |-> <<>>]
    /\ UNCHANGED <<rawName, parseVars, analysisVars, storeVars>>

\* the stored originalName uploaded again: decodeFileName of the result
DecodeAgain ==
    /\ decoded.pass = 1
    /\ decoded' = [decoded EXCEPT !.pass = 2, !.twice = DecodeFileName(decoded.once)]
    /\ UNCHANGED <<rawName, parseVars, analysisVars, storeVars>>

NameNext == DecodeOnce \/ DecodeAgain

NameSpec == NameInit /\ [][NameNext]_vars

(***************************************************************************)
(* RaceSpec: two pruneOldFilesIfExceed calls over one upload directory     *)
(***************************************************************************)
RacingPruners == {"p1", "p2"}

\* the upload directory after k uploads
StoredAfter(k) ==
    [n \in {SafeFilename(RandomUUID(i), SaveZip) : i \in 1..k} |->
       [isFile |-> TRUE,
        mtimeMs |-> CHOOSE i \in 1..k : n = SafeFilename(RandomUUID(i), SaveZip),
        bytes |-> "header"]]

RaceInit ==
    /\ \E k \in 1..MaxStored :
          /\ files = StoredAfter(k)
          /\ generated = [i \in 1..k |-> SafeFilename(RandomUUID(i), SaveZip)]
          /\ clock = k + 1
          /\ nextUuid = k + 1
    /\ dirExists = TRUE
    /\ evicted = {}
    /\ uploads = [u \in Uploaders |-> IdleUpload]
    /\ prunes = [p \in RacingPruners |-> IdlePrune]
    /\ analyzers = [a \in Analyzers |-> IdleAnalyzer]
    /\ response = NoResponse
    /\ cap = 0
    /\ ParseIdle
    /\ AnalysisIdle
    /\ NameIdle

RaceNext ==
    \/ /\ \/ \E p \in RacingPruners : \E maxCount \in 0..MaxCap : PruneList(p, maxCount)
          \/ \E p \in RacingPruners : PruneStat(p)
          \/ \E p \in RacingPruners : PruneUnlink(p)
          \/ \E p \in RacingPruners : PruneUnlinkFails(p)
       /\ UNCHANGED <<parseVars, analysisVars, nameVars, cap>>

RaceSpec == RaceInit /\ [][RaceNext]_vars

(***************************************************************************)
(* CapSpec: uploads and two retention runs that are all given the same cap *)
(***************************************************************************)
CapUploaders == {"u1"}

\* the archive the uploader sends
CapUpload == [mimetype |-> "application/zip", size |-> 1024, originalname |-> SaveZip,
              bytes |-> "header"]

\* the name of the i-th archive stored before the behaviour starts
StoredEarlier(i) == SafeFilename(RandomUUID(Len(UUIDS) + 1 - i), SaveZip)

CapInit ==
    /\ cap \in 0..MaxCap
    /\ \E k \in 0..MaxStored :
          /\ files = [n \in {StoredEarlier(i) : i \in 1..k} |->
                        [isFile |-> TRUE,
                         mtimeMs |-> CHOOSE i \in 1..k : n = StoredEarlier(i),
                         bytes |-> "header"]]
          /\ generated = [i \in 1..k |-> StoredEarlier(i)]
          /\ clock = k + 1
          /\ dirExists = (k > 0)
    /\ nextUuid = 1
    /\ evicted = {}
    /\ uploads = [u \in CapUploaders |-> IdleUpload]
    /\ prunes = [p \in RacingPruners |-> IdlePrune]
    /\ analyzers = [a \in Analyzers |-> IdleAnalyzer]
    /\ response = NoResponse
    /\ ParseIdle
    /\ AnalysisIdle
    /\ NameIdle

CapNext ==
    \/ /\ \/ \E u \in CapUploaders : Len(generated) < MaxStored /\ UploadFile(u, CapUpload)
          \/ \E u \in CapUploaders : UploadWritten(u)
          \/ \E u \in CapUploaders : UploadWriteFails(u)
          \/ \E p \in RacingPruners : PruneList(p, cap)
          \/ \E p \in RacingPruners : PruneStat(p)
          \/ \E p \in RacingPruners : PruneUnlink(p)
          \/ \E p \in RacingPruners : PruneUnlinkFails(p)
       /\ UNCHANGED <<parseVars, analysisVars, nameVars, cap>>

CapSpec == CapInit /\ [][CapNext]_vars

(***************************************************************************)
(* Properties                                                              *)
(***************************************************************************)
\* the k most recently modified of the entries fs
MostRecent(fs, k) ==
    {n \in DOMAIN fs : Cardinality({m \in DOMAIN fs : fs[m].mtimeMs > fs[n].mtimeMs}) < k}

\* C1: a retention run that nothing interleaved with and whose deletions all
\* succeeded leaves min(priorCount, maxCount) regular files, exactly the
\* maxCount most recently modified ones, each as it was before the run.
C1_PruneKeepsMostRecent ==
    (response.op = "prune" /\ ~response.threw /\ response.clean) =>
        /\ response.after = Restrict(response.prior, MostRecent(response.prior, response.maxCount))
        /\ Cardinality(DOMAIN response.after)
             = Min(Cardinality(DOMAIN response.prior), response.maxCount)

\* a run that found two archives, was told to keep one and removed the older
C1_Witness ==
    /\ response.op = "prune" /\ ~response.threw /\ response.clean
    /\ Cardinality(DOMAIN response.prior) = 2
    /\ response.maxCount = 1
    /\ Cardinality(DOMAIN response.after) = 1
    /\ ForeignDir \in DOMAIN files

\* the match the locator is specified to make: the whole path, or a final
\* segment, equal to the header's name
BasenameMatches(path) ==
    LET p == ReplaceBackslashes(path)
    IN  p = LEVEL_INIT_NAME \/ EndsWith(p, <<"/">> \o LEVEL_INIT_NAME)

FirstBasenameMatch(zipFiles) ==
    LET hits == {i \in 1..Len(zipFiles) : BasenameMatches(zipFiles[i].path)}
    IN  IF hits = {} THEN 0 ELSE CHOOSE i \in hits : \A j \in hits : i <= j

\* C2: the entry the locator returns is the first one, in listing order,
\* whose separator-normalized path is "level-init.dat" or ends with
\* "/level-init.dat"; it returns none when there is no such entry.
C2_LocatorMatchesBasenameOnly ==
    (parseResult.done /\ archive.opens) =>
        parseResult.r.entry = FirstBasenameMatch(archive.files)

\* the input lacks game, or lacks map.surfaces[0]
LacksSnapshot(d) == d.kind # "object" \/ ~d.game \/ ~d.map \/ ~d.surfaces0

\* C3: for every input without game or without map.surfaces[0], null and
\* undefined included, analyzeFactorioSave returns a report with
\* fullAnalysisAvailable = false and does not throw.
C3_DegradedIsTotal ==
    (analysis.done /\ LacksSnapshot(saveData)) =>
        /\ ~analysis.raised
        /\ analysis.report.fullAnalysisAvailable = FALSE

\* a record with a game substructure but no map was analyzed
C3_Witness ==
    /\ analysis.done /\ ~analysis.raised
    /\ saveData.kind = "object" /\ saveData.game /\ ~saveData.map
    /\ analysis.report.fullAnalysisAvailable = FALSE

FullReportDone == analysis.done /\ ~analysis.raised /\ analysis.report.fullAnalysisAvailable

\* C4: in a full report powerStatus is decided on the true ratio
\* production/consumption (consumption 0 taken as 1): sufficient iff the
\* ratio is >= 1.10, tight iff it is >= 0.90 and < 1.10, insufficient
\* otherwise.
C4_PowerStatusOnTrueRatio ==
    FullReportDone =>
        LET prod == saveData.full.prodTotal
            cons == IF saveData.full.consTotal = 0 THEN 1 ELSE saveData.full.consTotal
            status == analysis.report.power.powerStatus
        IN  /\ status = "sufficient" <=> 100 * prod >= 110 * cons
            /\ status = "tight" <=> (100 * prod >= 90 * cons /\ 100 * prod < 110 * cons)
            /\ status = "insufficient" <=> 100 * prod < 90 * cons

\* C5: in a full report threatLevel depends on the number of biter and
\* spitter nests only (0 low, 1..9 medium, 10..29 high, 30 and more
\* critical), and threatAlert holds exactly one message at high and critical
\* and none at low and medium.
C5_ThreatLevelByNestCount ==
    FullReportDone =>
        LET nests == saveData.full.ent["biter-nest"] + saveData.full.ent["spitter-nest"]
            enemy == analysis.report.enemy
        IN  /\ enemy.nestCount = nests
            /\ enemy.threatLevel =
                 (CASE nests = 0 -> "low"
                    [] nests \in 1..9 -> "medium"
                    [] nests \in 10..29 -> "high"
                    [] OTHER -> "critical")
            /\ Len(enemy.threatAlert)
                 = (IF enemy.threatLevel \in {"high", "critical"} THEN 1 ELSE 0)

\* thirty nests were reported as a critical threat with one alert
C5_Witness ==
    /\ FullReportDone
    /\ analysis.report.enemy.nestCount = 30
    /\ analysis.report.enemy.threatLevel = "critical"
    /\ Len(analysis.report.enemy.threatAlert) = 1

\* the file fails the upload rules: type outside the allow-list, or larger
\* than 200 MiB
InvalidUpload(file) ==
    \/ file.mimetype \notin allowedMimeTypes
    \/ file.size > 200 * 1024 * 1024

C7_AnalyzeClassifiesFirstFailure ==
    /\ [](response.op = "analyze" =>
            LET parsed == ParseFactorioSave(ReadArchive(files, dirExists, response.filePath))
                full == ~IsHeaderOnly(parsed.data)
                throws == full /\ FullModeThrows(parsed.data)
            IN  /\ response.statusCode \in {200, 400, 404, 500}
                /\ response.success <=> response.statusCode = 200
                /\ response.hasReport <=> response.statusCode = 200
                /\ response.statusCode = 404 <=> response.filePath = Null
                /\ response.statusCode = 404 =>
                     /\ ~Access(files, dirExists, PathJoin(uploadDir, response.filename))
                     /\ ~response.parseAttempted /\ ~response.analysisAttempted
                /\ response.filePath # Null =>
                     /\ response.parseAttempted
                     /\ response.statusCode = 400 <=> ~parsed.ok
                     /\ response.analysisAttempted <=> parsed.ok
                     /\ response.statusCode = 500 <=> (parsed.ok /\ throws)
                     /\ response.statusCode = 200 =>
                          response.report.fullAnalysisAvailable = full)
    /\ [][(analyzers' # analyzers \/ response'.op = "analyze") => files' = files]_vars

\* a stored archive decoded, and its analysis threw: answered 500
C7_Witness ==
    /\ response.op = "analyze"
    /\ response.statusCode = 500
    /\ response.parseOk /\ response.analysisRaised
    /\ response.filename \in Range(generated)

\* C8: when no entry matches the header's name, parseFactorioSave fails with
\* the error that lists the paths of the first min(10, n) entries, in order,
\* without calling the codec; an empty extracted buffer fails before the
\* codec is called.
C8_NoMatchListsFirstTen ==
    (parseResult.done /\ archive.opens) =>
        LET n == Len(archive.files)
            r == parseResult.r
        IN  /\ FirstBasenameMatch(archive.files) = 0 =>
                 /\ ~r.ok /\ r.kind = "no-level-init" /\ ~r.codecCalled
                 /\ r.names = Join([i \in 1..Min(10, n) |-> archive.files[i].path])
            /\ (r.entry # 0 /\ archive.files[r.entry].buf.bytes = "empty") =>
                 (~r.ok /\ r.kind = "empty" /\ ~r.codecCalled)

NoDuplicates(seq) == \A i, j \in 1..Len(seq) : i # j => seq[i] # seq[j]

\* C9: every name saveFileAsync returns differs from every name it returned
\* before and from the upload's original filename, concurrent uploads are
\* given different names, and a write creates a new entry and leaves every
\* entry already stored as it was.
C9_GeneratedNamesUnique ==
    /\ [](/\ NoDuplicates(generated)
          /\ (response.op = "upload" /\ response.success) =>
               /\ response.filename # response.file.originalname
               /\ response.filename # response.originalName
          /\ \A u, v \in DOMAIN uploads :
               (u # v /\ uploads[u].pc = "writing" /\ uploads[v].pc = "writing") =>
                   uploads[u].filename # uploads[v].filename
          /\ \A u \in DOMAIN uploads :
               uploads[u].pc = "writing" => uploads[u].filename \notin Range(generated))
    /\ [][/\ \A n \in DOMAIN files \cap DOMAIN files' : files'[n] = files[n]
          /\ Len(generated') > Len(generated) =>
               generated'[Len(generated')] \notin DOMAIN files]_vars

\* the second upload was named like the first generated name, and was stored
\* under another name
C9_Witness ==
    /\ response.op = "upload" /\ response.success
    /\ Len(generated) = 2
    /\ response.file.originalname = generated[1]
    /\ response.filename = generated[2]

\* C10: a name saveFileAsync returned resolves to its stored path until a
\* retention run unlinks it and to null ever after; only a retention run's
\* unlink removes a stored archive.
C10_StoredUntilEvicted ==
    /\ [](\A i \in 1..Len(generated) :
            FindFileByFilename(files, dirExists, generated[i])
              = (IF generated[i] \in evicted THEN Null ELSE <<uploadDir, generated[i]>>))
    /\ [][/\ evicted \subseteq evicted'
          /\ \A g \in DOMAIN files \ DOMAIN files' :
               \E p \in DOMAIN prunes :
                  /\ prunes[p].pc = "unlink"
                  /\ Head(prunes[p].toRemove) = g
                  /\ prunes'[p] # prunes[p]
                  /\ uploads' = uploads /\ analyzers' = analyzers]_vars

\* one archive was evicted and no longer resolves while another still does
C10_Witness ==
    /\ \E i \in 1..Len(generated) :
          /\ generated[i] \in evicted
          /\ FindFileByFilename(files, dirExists, generated[i]) = Null
    /\ \E j \in 1..Len(generated) :
          FindFileByFilename(files, dirExists, generated[j]) = <<uploadDir, generated[j]>>

\* C11: whatever the interleaving of two concurrent retention runs, neither
\* run ends with an error: a file the other run already removed is skipped.
C11_ConcurrentPrunesNeverFail ==
    response.op = "prune" => ~response.threw

\* C12: for every input that passes the mode decision (game and
\* map.surfaces[0] present) the analysis returns a full report and does not
\* throw, whichever nested substructure read afterwards is missing.
C12_FullModeNeverRaises ==
    (analysis.done /\ ~LacksSnapshot(saveData)) =>
        /\ ~analysis.raised
        /\ analysis.report.fullAnalysisAvailable

\* C13: decodeFileName is idempotent: applied to its own result it returns
\* that result, for every raw name.
C13_DecodeFileNameIdempotent ==
    decoded.pass = 2 => decoded.twice = decoded.once

\* C14: every response of the analyze route, whatever its status, carries
\* the three cache-disabling headers noCache sets.
C14_AnalyzeResponsesNotCacheable ==
    response.op = "analyze" =>
        /\ DOMAIN response.headers = {"Cache-Control", "Pragma", "Expires"}
        /\ response.headers["Cache-Control"]
             = "no-store, no-cache, must-revalidate, proxy-revalidate"
        /\ response.headers["Pragma"] = "no-cache"
        /\ response.headers["Expires"] = "0"

\* a stored archive without the header entry was answered 400, not cacheable
C14_Witness ==
    /\ response.op = "analyze"
    /\ response.statusCode = 400
    /\ response.filename \in Range(generated)
    /\ response.headers = NoCacheHeaders

\* C15: a degraded report takes saveName and gameVersion from the header,
\* with the fallbacks for a missing name or version, has gameTimeHour "-",
\* score 0, all counts 0, no mined / remaining / storage / machine entries,
\* no alerts, empty urgent and important buckets, and exactly one
\* suggestion, the header-only note, in the suggest bucket.
C15_DegradedReportContents ==
    (analysis.done /\ ~analysis.raised /\ ~analysis.report.fullAnalysisAvailable) =>
        LET r == analysis.report
            isRecord == saveData.kind = "object"
        IN  /\ r.basic.saveName = (IF isRecord /\ saveData.hasName
                                   THEN "header.name" ELSE "unnamed-base")
            /\ r.basic.gameVersion = (IF isRecord /\ saveData.hasVersion
                                      THEN "header.factorioVersion.asString"
                                      ELSE "unknown-version")
            /\ r.basic.gameTimeHour = Dash
            /\ r.develop.score = Num(0)
            /\ r.develop.researchedCount = 0 /\ r.develop.totalTechCount = 0
            /\ r.develop.techRate = Num(0)
            /\ r.resource.mined = <<>> /\ r.resource.remaining = <<>>
            /\ r.resource.storage = <<>> /\ r.resource.coreResAlert = <<>>
            /\ r.production.machines = <<>> /\ r.production.efficiencyAlert = <<>>
            /\ r.power.totalProduction = 0 /\ r.power.totalConsumption = 0
            /\ r.enemy.totalCount = 0 /\ r.enemy.nestCount = 0
            /\ r.enemy.threatAlert = <<>>
            /\ r.optimizeSuggestions.urgent = <<>>
            /\ r.optimizeSuggestions.important = <<>>
            /\ Len(r.optimizeSuggestions.suggest) = 1
            /\ r.optimizeSuggestions.suggest[1].rule = "header-only"

\* a header with a version but no name gave the name fallback, the header's
\* version and the single suggestion
C15_Witness ==
    /\ analysis.done /\ ~analysis.raised /\ ~analysis.report.fullAnalysisAvailable
    /\ saveData.kind = "object" /\ ~saveData.hasName /\ saveData.hasVersion
    /\ analysis.report.basic.saveName = "unnamed-base"
    /\ analysis.report.basic.gameVersion = "header.factorioVersion.asString"
    /\ Len(analysis.report.optimizeSuggestions.suggest) = 1

\* C16: in a full report of a save with at least one technology the score is
\* min(100, round(min(50, techRatio*50) + stageComponent)), where
\* stageComponent is min(50, elapsedHours/10*50) when the reported stage is
\* early and 50 in every other stage.
C16_ScoreByStage ==
    (FullReportDone /\ analysis.report.develop.totalTechCount > 0) =>
        LET dev == analysis.report.develop
            hours == analysis.report.basic.gameTimeHour.h     \* hundredths of an hour
            \* stageComponent, in twentieths
            component == IF dev.stage = "early" THEN Min(1000, hours) ELSE 1000
            \* min(50, techRatio*50) + stageComponent = num / den
            num == Min(1000 * dev.totalTechCount, 1000 * dev.researchedCount)
                   + component * dev.totalTechCount
            den == 20 * dev.totalTechCount
        IN  dev.score = Num(Min(100, (2 * num + den) \div (2 * den)))

\* the stage an axis alone implies: 1 early, 2 mid, 3 late, 4 end-game
AxisStage(v, t1, t2, t3) == IF v < t1 THEN 1 ELSE IF v < t2 THEN 2 ELSE IF v < t3 THEN 3 ELSE 4

StageNames == <<"early", "mid", "late", "end">>

C18_BucketSizesBounded ==
    FullReportDone =>
        /\ Len(analysis.report.optimizeSuggestions.urgent) <= 3
        /\ Len(analysis.report.optimizeSuggestions.important) <= 3
        /\ Len(analysis.report.optimizeSuggestions.suggest) <= 2

\* the number of messages of the given rules in a bucket
CountRules(bucket, rules) == Cardinality({i \in 1..Len(bucket) : bucket[i].rule \in rules})

\* C19: in every full report urgent holds the power message iff powerStatus
\* is insufficient and the threat alert iff threatLevel is critical;
\* important holds the power message iff powerStatus is tight and the threat
\* alert iff threatLevel is high; the power message and the threat alert
\* each appear at most once over both buckets, the threat message is the
\* report's threat alert, and no bucket holds an undefined message.
C19_BucketsKeyedToResults ==
    FullReportDone =>
        LET r == analysis.report
            urgent == r.optimizeSuggestions.urgent
            important == r.optimizeSuggestions.important
            suggest == r.optimizeSuggestions.suggest
            power == {"power-insufficient", "power-tight"}
        IN  /\ CountRules(urgent, {"power-insufficient"}) > 0
                  <=> r.power.powerStatus = "insufficient"
            /\ CountRules(urgent, {"threat"}) > 0 <=> r.enemy.threatLevel = "critical"
            /\ CountRules(important, {"power-tight"}) > 0 <=> r.power.powerStatus = "tight"
            /\ CountRules(important, {"threat"}) > 0 <=> r.enemy.threatLevel = "high"
            /\ CountRules(urgent, {"power-tight"}) = 0
            /\ CountRules(important, {"power-insufficient"}) = 0
            /\ CountRules(urgent, power) + CountRules(important, power) <= 1
            /\ CountRules(urgent, {"threat"}) + CountRules(important, {"threat"}) <= 1
            /\ \A i \in 1..Len(urgent) :
                  urgent[i].rule = "threat" => r.enemy.threatAlert = <<urgent[i]>>
            /\ \A i \in 1..Len(important) :
                  important[i].rule = "threat" => r.enemy.threatAlert = <<important[i]>>
            /\ CountRules(urgent \o important \o suggest, {"undefined", ""}) = 0

\* power short with ten nests: the power message is urgent and the threat
\* alert important
C19_Witness ==
    /\ FullReportDone
    /\ analysis.report.power.powerStatus = "insufficient"
    /\ analysis.report.enemy.threatLevel = "high"
    /\ CountRules(analysis.report.optimizeSuggestions.urgent, {"power-insufficient"}) = 1
    /\ CountRules(analysis.report.optimizeSuggestions.important, {"threat"}) = 1

\* the files beyond the maxCount most recently modified ones of fs
Surplus(fs, k) == DOMAIN fs \ MostRecent(fs, k)

\* seq lists exactly the names of the set, each once, oldest first
ListsOldestFirst(seq, names, fs) ==
    /\ Range(seq) = names
    /\ Len(seq) = Cardinality(names)
    /\ \A i, j \in 1..Len(seq) : i < j => fs[seq[i]].mtimeMs <= fs[seq[j]].mtimeMs

\* C20: a retention run in which an unlink failed does not raise; it has
\* attempted every surplus file once, oldest first, the ones after the
\* failed one included; and no step of a retention run removes one of the
\* maxCount most recently modified files the run listed.
C20_UnlinkFailureSwallowed ==
    /\ [](/\ (response.op = "prune" /\ response.failed # {}) =>
               /\ ~response.threw
               /\ ListsOldestFirst(response.attempted,
                                    Surplus(response.prior, response.maxCount),
                                    response.prior)
               /\ MostRecent(response.prior, response.maxCount) \subseteq DOMAIN files
          /\ \A p \in DOMAIN prunes :
               (prunes[p].pc = "unlink" /\ prunes[p].failed # {}) =>
                   ListsOldestFirst(prunes[p].attempted \o prunes[p].toRemove,
                                    Surplus(prunes[p].prior, prunes[p].maxCount),
                                    prunes[p].prior))
    /\ [][\A p \in DOMAIN prunes :
            (prunes[p].pc = "unlink" /\ prunes'[p] # prunes[p]) =>
                (DOMAIN files \ DOMAIN files')
                  \cap MostRecent(prunes[p].prior, prunes[p].maxCount) = {}]_vars

\* told to keep none of two archives, the run failed to delete the older,
\* went on, and deleted the newer
C20_Witness ==
    /\ response.op = "prune" /\ ~response.threw
    /\ Len(response.attempted) = 2
    /\ response.failed = {response.attempted[1]}
    /\ response.attempted[1] \in DOMAIN files
    /\ response.attempted[2] \notin DOMAIN files
    /\ response.attempted[2] \in evicted

\* the amounts of the entities that carry one, added up from the last
RECURSIVE ReserveOf(_)
ReserveOf(entities) ==
    IF Len(entities) = 0 THEN 0
    ELSE LET last == entities[Len(entities)]
         IN  ReserveOf(SubSeq(entities, 1, Len(entities) - 1))
             + (IF last.hasAmount THEN last.amount ELSE 0)

\* C21: in a full report remaining is, per core resource, the sum of the
\* amounts of the map entities named like it (a missing amount counts 0),
\* and coreResAlert holds one alert for each core resource whose remaining
\* is strictly under a tenth of its mined total, in the order iron ore,
\* copper ore, coal, crude oil, and nothing else.
C21_CoreResAlertPerDepletedResource ==
    FullReportDone =>
        LET f == saveData.full
            res == analysis.report.resource
            depleted == {r \in {"iron-ore", "copper-ore", "coal", "crude-oil"} :
                           10 * ReserveOf(f.deposits[r]) < f.mined[r]}
            order == [r \in {"iron-ore", "copper-ore", "coal", "crude-oil"} |->
                        IF r = "iron-ore" THEN 1 ELSE IF r = "copper-ore" THEN 2
                        ELSE IF r = "coal" THEN 3 ELSE 4]
        IN  /\ \A r \in {"iron-ore", "copper-ore", "coal", "crude-oil"} :
                  res.remaining[r] = ReserveOf(f.deposits[r])
            /\ {res.coreResAlert[i].s : i \in 1..Len(res.coreResAlert)} = depleted
            /\ Len(res.coreResAlert) = Cardinality(depleted)
            /\ \A i, j \in 1..Len(res.coreResAlert) :
                  i < j => order[res.coreResAlert[i].s] < order[res.coreResAlert[j].s]
            /\ \A i \in 1..Len(res.coreResAlert) : res.coreResAlert[i].rule = "resource"

\* iron ore and coal are down to 9 of 100 mined and are alerted; copper ore
\* and crude oil hold exactly a tenth and are not
C21_Witness ==
    /\ FullReportDone
    /\ saveData.full.mined["copper-ore"] = 100
    /\ analysis.report.resource.remaining["copper-ore"] = 10
    /\ analysis.report.resource.remaining["iron-ore"] = 9
    /\ Len(analysis.report.resource.coreResAlert) = 2
    /\ analysis.report.resource.coreResAlert[1].s = "iron-ore"
    /\ analysis.report.resource.coreResAlert[2].s = "coal"

\* C22: in a full report efficiencyRate is the two-decimal percentage of
\* (steel furnaces + electric mining drills) over (stone + steel furnaces +
\* electric + burner mining drills), and "100%" when there is no such
\* machine; efficiencyAlert holds, in this order and nothing else, one alert
\* for stone furnaces iff there are any, one for burner mining drills iff
\* there are any, and one for labs iff there are under 5 in the early stage.
C22_EfficiencyRatioAndAlerts ==
    FullReportDone =>
        LET ent == saveData.full.ent
            prod == analysis.report.production
            upgraded == ent["steel-furnace"] + ent["electric-mining-drill"]
            all == upgraded + ent["stone-furnace"] + ent["burner-mining-drill"]
            expected ==
                (IF ent["stone-furnace"] > 0 THEN <<"stone-furnace">> ELSE <<>>)
                \o (IF ent["burner-mining-drill"] > 0 THEN <<"burner-mining-drill">> ELSE <<>>)
                \o (IF ent["lab"] < 5 /\ analysis.report.develop.stage = "early"
                    THEN <<"lab">> ELSE <<>>)
        IN  /\ all = 0 => prod.efficiencyRate.kind = "100%"
            /\ all > 0 =>
                  /\ prod.efficiencyRate.kind = "num"
                  \* within half a hundredth of a percent of the ratio
                  /\ 2 * prod.efficiencyRate.h * all - 2 * 10000 * upgraded <= all
                  /\ 2 * 10000 * upgraded - 2 * prod.efficiencyRate.h * all <= all
            /\ [i \in 1..Len(prod.efficiencyAlert) |-> prod.efficiencyAlert[i].rule] = expected
            /\ \A m \in {"stone-furnace", "steel-furnace", "electric-mining-drill",
                           "burner-mining-drill", "lab"} : prod.machines[m] = ent[m]

\* one steel furnace beside two stone furnaces and a burner drill, four labs,
\* early stage: 25.00% and all three alerts
C22_Witness ==
    /\ FullReportDone
    /\ analysis.report.production.efficiencyRate = Num(2500)
    /\ Len(analysis.report.production.efficiencyAlert) = 3
    /\ analysis.report.production.efficiencyAlert[3].rule = "lab"
    /\ analysis.report.develop.stage = "early"

(***************************************************************************)
(* C23: uploads and retention runs that share one cap                      *)
(***************************************************************************)
\* the n most recently modified of the files stored so far
LatestStored(n) ==
    {generated[i] : i \in {j \in DOMAIN generated : j > Len(generated) - n}}

\* the retention runs that took a step of their unlink loop
Unlinking ==
    {p \in DOMAIN prunes :
       /\ prunes[p].pc = "unlink"
       /\ \/ prunes'[p].pc = "idle"
          \/ prunes'[p].toRemove = Tail(prunes[p].toRemove)}

\* C23: when uploads and concurrent pruneOldFilesIfExceed calls all use the
\* same cap N, no call deletes one of the N most recently modified files
\* stored so far, the stored count never falls below min(files ever stored, N),
\* and a file leaves the directory only through a call that is unlinking it
\* and had it in the directory listing it read.
C23_CommonCapKeepsMostRecent ==
    /\ [](/\ LatestStored(cap) \cap evicted = {}
          /\ LatestStored(cap) \subseteq RegularFiles(files)
          /\ Cardinality(RegularFiles(files)) >= Min(Len(generated), cap))
    /\ [][\A f \in DOMAIN files \ DOMAIN files' :
            \E p \in Unlinking : /\ f = Head(prunes[p].toRemove)
                                 /\ f \in prunes[p].listing]_vars

\* with cap 1, a file was deleted while the other retention run and an
\* upload were in flight, and a file stored after the start is in the directory
C23_Witness ==
    /\ cap = 1
    /\ evicted # {}
    /\ \E p \in DOMAIN prunes : prunes[p].pc = "unlink"
    /\ \E u \in DOMAIN uploads : uploads[u].pc = "writing"
    /\ Len(generated) >= 2
    /\ generated[Len(generated)] \in DOMAIN files

(***************************************************************************)
(* C24: the analyze endpoint and the storage root                          *)
(***************************************************************************)
\* a path that names an entry of the flat upload directory
InsideStorageRoot(path) ==
    /\ Len(path) = 2
    /\ path[1] = uploadDir
    /\ path[2] \notin {<<>>, <<".">>, <<".", ".">>}

\* C24: for every identifier given to the analyze endpoint, '..' and path
\* separators included, findFileByFilename returns null or a path inside the
\* storage root, and the analysis never opens a file outside it.
C24_AnalyzeStaysInsideStorageRoot ==
    /\ \A a \in DOMAIN analyzers :
          analyzers[a].pc = "parse" => InsideStorageRoot(analyzers[a].filePath)
    /\ response.op = "analyze" =>
          \/ response.filePath = Null
          \/ InsideStorageRoot(response.filePath)

(***************************************************************************)
(* C25: the ranges of develop.score and techRate                           *)
(***************************************************************************)
\* C25: in every report analyzeFactorioSave returns, degraded or full, for
\* any tick and any technology table, one without technologies included,
\* develop.score is an integer in 0..100 and techRate is a two-decimal
\* percentage between 0.00% and 100.00%.
C25_ScoreAndTechRateInRange ==
    (analysis.done /\ ~analysis.raised) =>
        LET dev == analysis.report.develop
        IN  /\ dev.score.kind = "num"
            /\ dev.score.h \in 0..100
            /\ dev.techRate.kind = "num"
            /\ dev.techRate.h \in 0..10000

====
